---- MODULE Spec2Model ----
(***************************************************************************)
(* Model of src/src/chunked.rs: the chunked sub-allocator of gfx-mem.      *)
(* ChunkedNode is one size class (a free list of chunk slots over backing  *)
(* blocks bought from the owner); ChunkedAllocator routes a request to the *)
(* node of its size class and creates nodes lazily.                        *)
(*                                                                         *)
(* Indices (block_index, chunk_index, node index) are 0-based as in the    *)
(* source; the sequences that hold them are 1-based, so an access          *)
(* self.blocks[i] of the source reads blocks[i + 1] here.                  *)
(***************************************************************************)
EXTENDS Integers, Sequences, FiniteSets, TLC

\* ------------------------------------------------------------------ bounds
\* chunks_per_block is drawn from 1..MaxChunksPerBlock
MaxChunksPerBlock == 2
\* the caller holds at most this many chunks at a time ...
MaxLive == 3
\* ... and makes at most this many calls
MaxCalls == 5

\* pick_node is tried with min_chunk_size up to 2^MaxMinShift and
\* max_chunk_size up to min_chunk_size * 2^MaxClassShift
MaxMinShift == 2
MaxClassShift == 3

\* the constructor arguments the model draws from
ChunkSizeLimits == {[min |-> 2, max |-> 8]}
MemoryTypeIds == {1}

\* ------------------------------------------------------- integer helpers
\* size_of::<usize>() * 8 on a 64-bit target
bits == 64

RECURSIVE Pow2(_)
Pow2(n) == IF n = 0 THEN 1 ELSE 2 * Pow2(n - 1)

\* 1u64 << n; the shifts of the model stay far below 64 bits, where the
\* u64 arithmetic of the source is exact
shl1(n) == Pow2(n)

RECURSIVE BitLen(_)
BitLen(x) == IF x = 0 THEN 0 ELSE 1 + BitLen(x \div 2)

\* u64::leading_zeros
leading_zeros(x) == bits - BitLen(x)

\* a & b on unsigned integers
RECURSIVE BitAnd(_, _)
BitAnd(a, b) ==
    IF a = 0 \/ b = 0 THEN 0
    ELSE (a % 2) * (b % 2) + 2 * BitAnd(a \div 2, b \div 2)

\* std::cmp::max
max(a, b) == IF a >= b THEN a ELSE b

\* lib.rs alignment_shift: the distance from offset up to the next multiple
\* of alignment (a power of two)
alignment_shift(alignment, offset) ==
    BitAnd(alignment - BitAnd(offset, alignment - 1), alignment - 1)

\* ------------------------------------------------------------ the handles
\* A backing block of the owner: a range of one memory object.
Block_range_start(block) == block.start
Block_size(block) == block.size
Block_memory(block) == block.memory

\* TaggedBlock::new(memory, range).set_tag(Tag(tag))
TaggedBlock_new(memory, start, end, tag) ==
    [memory |-> memory, start |-> start, end |-> end, tag |-> tag]
TaggedBlock_size(chunk) == chunk.end - chunk.start

NoChunk == TaggedBlock_new(0, 0, 0, 0)

\* ------------------------------------------------------------- the owner
\* Requirements of a request
Requirements(type_mask, size, alignment) ==
    [type_mask |-> type_mask, size |-> size, alignment |-> alignment]

\* The owners of the model: a root allocator, which gives every block a
\* memory object of its own (range.start = 0), and an arena, which carves
\* its blocks out of one memory object at the next aligned offset.
OwnerKinds == {"root", "arena"}

ArenaMemory == 1

\* the end of the last block carved out of the arena's memory object
ArenaEnd(granted) ==
    LET ends == {g.start + g.size : g \in granted}
    IN  IF ends = {} THEN 0 ELSE CHOOSE e \in ends : \A f \in ends : f <= e

\* owner.alloc(device, request, reqs): a block of the requested size,
\* aligned as requested, disjoint from every block granted so far, or
\* OutOfMemory when `refuse` (the owner is exhausted).
Owner_alloc(kind, granted, refuse, reqs) ==
    LET block ==
            IF kind = "arena"
            THEN [memory |-> ArenaMemory,
                  start |-> ArenaEnd(granted) +
                            alignment_shift(reqs.alignment, ArenaEnd(granted)),
                  size |-> reqs.size]
            ELSE [memory |-> Cardinality(granted) + 1, start |-> 0,
                  size |-> reqs.size]
    IN  IF refuse
        THEN [ok |-> FALSE, err |-> "OutOfMemory", block |-> block]
        ELSE [ok |-> TRUE, err |-> "", block |-> block]

\* ----------------------------------------------------------- ChunkedNode
ChunkedNode_new(chunk_size, chunks_per_block, id) ==
    [id |-> id, chunk_size |-> chunk_size,
     chunks_per_block |-> chunks_per_block,
     free |-> <<>>, blocks |-> <<>>]

\* count without the fan-out
ChunkedNode_count_blocks(self) == Len(self.blocks)

ChunkedNode_count(self) == Len(self.blocks) * self.chunks_per_block

\* the Requirements of a block of one chunk only
ChunkedNode_grow_reqs_one_chunk(self) ==
    Requirements(shl1(self.id), self.chunk_size, self.chunk_size)

\* the Requirements a node asks of the owner when it grows
ChunkedNode_grow_reqs(self) ==
    Requirements(shl1(self.id),
                 self.chunk_size * self.chunks_per_block,
                 self.chunk_size)

\* grow with one slot too few enqueued
ChunkedNode_grow_short(self, answer) ==
    IF ~answer.ok
    THEN [res |-> answer.err, node |-> self]
    ELSE [res |-> "ok",
          node |-> [self EXCEPT
              !.free = self.free \o
                  [i \in 1..(self.chunks_per_block - 1) |->
                      <<Len(self.blocks), i - 1>>],
              !.blocks = Append(self.blocks, answer.block)]]

\* grow that enqueues the new slots last chunk first
ChunkedNode_grow_reversed(self, answer) ==
    IF ~answer.ok
    THEN [res |-> answer.err, node |-> self]
    ELSE [res |-> "ok",
          node |-> [self EXCEPT
              !.free = self.free \o
                  [i \in 1..self.chunks_per_block |->
                      <<Len(self.blocks), self.chunks_per_block - i>>],
              !.blocks = Append(self.blocks, answer.block)]]

\* grow that enqueues the slots before it hears the owner's answer
ChunkedNode_grow_eager(self, answer) ==
    LET queued == [self EXCEPT !.free = self.free \o
                      [i \in 1..self.chunks_per_block |->
                          <<Len(self.blocks), i - 1>>]]
    IN  IF ~answer.ok
        THEN [res |-> answer.err, node |-> queued]
        ELSE [res |-> "ok",
              node |-> [queued EXCEPT
                  !.blocks = Append(self.blocks, answer.block)]]

\* ChunkedNode::grow given the owner's answer
ChunkedNode_grow(self, answer) ==
    LET reqs == ChunkedNode_grow_reqs(self)
        block == answer.block
    IN  IF ~answer.ok
        THEN [res |-> answer.err, node |-> self]
        ELSE IF alignment_shift(reqs.alignment, Block_range_start(block)) # 0
        THEN [res |-> "panic", node |-> self]
        ELSE IF ~(self.chunks_per_block <= Block_size(block) \div self.chunk_size)
        THEN [res |-> "panic", node |-> self]
        ELSE [res |-> "ok",
              node |-> [self EXCEPT
                  !.free = self.free \o
                      [i \in 1..self.chunks_per_block |->
                          <<Len(self.blocks), i - 1>>],
                  !.blocks = Append(self.blocks, block)]]

\* alloc_no_grow with the offset one byte off
ChunkedNode_alloc_no_grow_shifted(self) ==
    IF self.free = <<>>
    THEN [some |-> FALSE, chunk |-> NoChunk, node |-> self]
    ELSE LET block_index == Head(self.free)[1]
             chunk_index == Head(self.free)[2]
             offset == chunk_index * self.chunk_size + 1
         IN  [some |-> TRUE,
              chunk |-> TaggedBlock_new(
                  Block_memory(self.blocks[block_index + 1]),
                  offset, self.chunk_size + offset, block_index),
              node |-> [self EXCEPT !.free = Tail(self.free)]]

\* ChunkedNode::alloc_no_grow
ChunkedNode_alloc_no_grow(self) ==
    IF self.free = <<>>
    THEN [some |-> FALSE, chunk |-> NoChunk, node |-> self]
    ELSE LET block_index == Head(self.free)[1]
             chunk_index == Head(self.free)[2]
             offset == chunk_index * self.chunk_size
         IN  [some |-> TRUE,
              chunk |-> TaggedBlock_new(
                  Block_memory(self.blocks[block_index + 1]),
                  offset, self.chunk_size + offset, block_index),
              node |-> [self EXCEPT !.free = Tail(self.free)]]

\* ChunkedNode::alloc; owner is [kind, granted, refuse]
ChunkedNode_alloc(self, owner, reqs) ==
    LET granted == owner.granted IN
    IF BitAnd(shl1(self.id), reqs.type_mask) = 0
    THEN [res |-> "NoCompatibleMemoryType", node |-> self, chunk |-> NoChunk,
          owner |-> "none", granted |-> granted]
    ELSE LET popped == ChunkedNode_alloc_no_grow(self)
         IN  IF popped.some
             THEN IF /\ TaggedBlock_size(popped.chunk) >= reqs.size
                     /\ BitAnd(popped.chunk.start, reqs.alignment - 1) = 0
                  THEN [res |-> "ok", node |-> popped.node,
                        chunk |-> popped.chunk,
                        owner |-> "none", granted |-> granted]
                  ELSE [res |-> "panic", node |-> popped.node,
                        chunk |-> NoChunk,
                        owner |-> "none", granted |-> granted]
             ELSE LET answer == Owner_alloc(owner.kind, granted, owner.refuse,
                                            ChunkedNode_grow_reqs(self))
                      grown == ChunkedNode_grow(self, answer)
                      again == ChunkedNode_alloc_no_grow(grown.node)
                      held == IF answer.ok THEN granted \cup {answer.block}
                              ELSE granted
                  IN  IF grown.res # "ok"
                      THEN [res |-> grown.res, node |-> grown.node,
                            chunk |-> NoChunk,
                            owner |-> IF answer.ok THEN "granted" ELSE "failed",
                            granted |-> held]
                      ELSE IF ~again.some
                      THEN [res |-> "panic", node |-> again.node,
                            chunk |-> NoChunk,
                            owner |-> "granted", granted |-> held]
                      ELSE [res |-> "ok", node |-> again.node,
                            chunk |-> again.chunk,
                            owner |-> "granted", granted |-> held]

\* free that pushes the slot onto the back of the free list
ChunkedNode_free_push_back(self, chunk) ==
    [res |-> "ok",
     node |-> [self EXCEPT !.free =
         Append(self.free, <<chunk.tag, chunk.start \div self.chunk_size>>)]]

\* ChunkedNode::free; the chunk's tag is taken off before the last assert
ChunkedNode_free(self, chunk) ==
    IF chunk.start % self.chunk_size # 0
    THEN [res |-> "panic", node |-> self]
    ELSE IF TaggedBlock_size(chunk) # self.chunk_size
    THEN [res |-> "panic", node |-> self]
    ELSE LET offset == chunk.start
             block_index == chunk.tag
             chunk_index == offset \div self.chunk_size
         IN  IF \/ block_index + 1 > Len(self.blocks)
                \/ Block_memory(self.blocks[block_index + 1]) # chunk.memory
             THEN [res |-> "panic", node |-> self]
             ELSE [res |-> "ok",
                   node |-> [self EXCEPT !.free =
                       <<(<<block_index, chunk_index>>)>> \o self.free]]

\* is_used with the comparison the wrong way round
ChunkedNode_is_used_less(self) == ChunkedNode_count(self) < Len(self.free)

ChunkedNode_is_used(self) == ChunkedNode_count(self) # Len(self.free)

\* dispose that hands the blocks back last first
ChunkedNode_dispose_reversed(self) ==
    IF ChunkedNode_is_used(self)
    THEN [ok |-> FALSE, node |-> self, returned |-> <<>>]
    ELSE [ok |-> TRUE, node |-> [self EXCEPT !.blocks = <<>>],
          returned |-> [i \in 1..Len(self.blocks) |->
                           self.blocks[Len(self.blocks) + 1 - i]]]

\* ChunkedNode::dispose: Err(self), or the blocks handed to owner.free
ChunkedNode_dispose(self) ==
    IF ChunkedNode_is_used(self)
    THEN [ok |-> FALSE, node |-> self, returned |-> <<>>]
    ELSE [ok |-> TRUE, node |-> [self EXCEPT !.blocks = <<>>],
          returned |-> self.blocks]

\* ------------------------------------------------------ ChunkedAllocator
VARIABLES
    id,               \* ChunkedAllocator.id (the MemoryTypeId's number)
    chunks_per_block, \* ChunkedAllocator.chunks_per_block
    min_chunk_size,   \* ChunkedAllocator.min_chunk_size
    max_chunk_size,   \* ChunkedAllocator.max_chunk_size
    nodes,            \* ChunkedAllocator.nodes
    owner_kind,       \* which owner the allocator is used with
    granted,          \* the owner's blocks currently granted to the allocator
    live,             \* the chunks the caller holds, each with its issuing node
    recent,           \* per node: the chunk freed last, until the node issues one
    phase,            \* "running", "aborted" (a panic) or "disposed"
    freed,            \* has any free been called
    calls,            \* the number of calls made
    resolved,         \* the highest node index a request resolved to, or -1
    last              \* the last call: its arguments and its outcome

vars == <<id, chunks_per_block, min_chunk_size, max_chunk_size, nodes,
          owner_kind, granted, live, recent, phase, freed, calls, resolved,
          last>>

ChunkedAllocator_new(cpb, min_size, max_size, type_id) ==
    [id |-> type_id, chunks_per_block |-> cpb, min_chunk_size |-> min_size,
     max_chunk_size |-> max_size, nodes |-> <<>>]

\* the allocator as one value
Self ==
    [id |-> id, chunks_per_block |-> chunks_per_block,
     min_chunk_size |-> min_chunk_size, max_chunk_size |-> max_chunk_size,
     nodes |-> nodes]

\* pick_node without the decrement of size
pick_node_no_decrement(self, size) ==
    (bits - leading_zeros(size \div self.min_chunk_size)) % 256

\* ChunkedAllocator::pick_node; `as u8` truncates
pick_node(self, size) ==
    (bits - leading_zeros((size - 1) \div self.min_chunk_size)) % 256

\* chunk_size that grows by min_chunk_size a node instead of doubling
grow_chunk_size_linear(self, index) == self.min_chunk_size * (index + 1)

\* the closure chunk_size of ChunkedAllocator::grow
grow_chunk_size(self, index) == self.min_chunk_size * shl1(index)

\* grow that builds the nodes 0..size anew
ChunkedAllocator_grow_rebuild(self, size) ==
    IF ~(grow_chunk_size(self, size) <= self.max_chunk_size)
    THEN [res |-> "panic", nodes |-> self.nodes]
    ELSE [res |-> "ok",
          nodes |-> [k \in 1..(size + 1) |->
              ChunkedNode_new(grow_chunk_size(self, k - 1),
                              self.chunks_per_block, self.id)]]

\* ChunkedAllocator::grow(size): nodes len..size are appended
ChunkedAllocator_grow(self, size) ==
    IF ~(grow_chunk_size(self, size) <= self.max_chunk_size)
    THEN [res |-> "panic", nodes |-> self.nodes]
    ELSE LET len == Len(self.nodes) % 256
         IN  [res |-> "ok",
              nodes |-> self.nodes \o
                  [k \in 1..(size + 1 - len) |->
                      ChunkedNode_new(grow_chunk_size(self, len + k - 1),
                                      self.chunks_per_block, self.id)]]

AllocResult(res, nodes_, chunk, index, owner, granted_) ==
    [res |-> res, nodes |-> nodes_, chunk |-> chunk, index |-> index,
     owner |-> owner, granted |-> granted_]

\* the first test of ChunkedAllocator::alloc
alloc_oversize_dropped(self, reqs) == FALSE
alloc_oversize(self, reqs) == reqs.size > self.max_chunk_size

\* the size ChunkedAllocator::alloc picks the node by
alloc_pick_size_only(reqs) == reqs.size
alloc_pick_size(reqs) == max(reqs.size, reqs.alignment)

\* ChunkedAllocator::alloc.  pick_node's debug_assert and assert come first;
\* the requests of the model keep max(size, alignment) within
\* max_chunk_size whenever size is, so debug and release builds agree.
ChunkedAllocator_alloc(self, owner, reqs) ==
    IF alloc_oversize(self, reqs)
    THEN AllocResult("OutOfMemory", self.nodes, NoChunk, 0, "none",
                     owner.granted)
    ELSE LET size == alloc_pick_size(reqs)
             index == pick_node(self, size)
         IN  IF ~(size <= self.max_chunk_size) \/ size = 0
             THEN AllocResult("panic", self.nodes, NoChunk, 0, "none",
                              owner.granted)
             ELSE LET grown == ChunkedAllocator_grow(self, index + 1)
                  IN  IF grown.res # "ok"
                      THEN AllocResult("panic", grown.nodes, NoChunk, index,
                                       "none", owner.granted)
                      ELSE LET r == ChunkedNode_alloc(grown.nodes[index + 1],
                                                      owner, reqs)
                           IN  AllocResult(r.res,
                                   [grown.nodes EXCEPT ![index + 1] = r.node],
                                   r.chunk, index, r.owner, r.granted)

\* free that takes the tag for the index of the node
ChunkedAllocator_free_by_tag(self, chunk) ==
    LET index == chunk.tag
    IN  IF index + 1 > Len(self.nodes)
        THEN [res |-> "panic", nodes |-> self.nodes, index |-> index]
        ELSE LET r == ChunkedNode_free(self.nodes[index + 1], chunk)
             IN  [res |-> r.res,
                  nodes |-> [self.nodes EXCEPT ![index + 1] = r.node],
                  index |-> index]

\* ChunkedAllocator::free
ChunkedAllocator_free(self, chunk) ==
    LET index == pick_node(self, TaggedBlock_size(chunk))
    IN  IF TaggedBlock_size(chunk) = 0 \/ index + 1 > Len(self.nodes)
        THEN [res |-> "panic", nodes |-> self.nodes, index |-> index]
        ELSE LET r == ChunkedNode_free(self.nodes[index + 1], chunk)
             IN  [res |-> r.res,
                  nodes |-> [self.nodes EXCEPT ![index + 1] = r.node],
                  index |-> index]

ChunkedAllocator_is_used(self) ==
    \E i \in 1..Len(self.nodes) : ChunkedNode_is_used(self.nodes[i])

RECURSIVE DrainNodes(_)
\* the blocks the nodes hand to owner.free, node by node
DrainNodes(ns) ==
    IF ns = <<>> THEN <<>>
    ELSE LET d == ChunkedNode_dispose(Head(ns))
         IN  d.returned \o DrainNodes(Tail(ns))

\* ChunkedAllocator::dispose
ChunkedAllocator_dispose(self) ==
    IF ChunkedAllocator_is_used(self)
    THEN [ok |-> FALSE, nodes |-> self.nodes, returned |-> <<>>]
    ELSE [ok |-> TRUE, nodes |-> <<>>, returned |-> DrainNodes(self.nodes)]

\* ----------------------------------------------------------- the machine
\* the requests the caller makes
\* the requests the caller makes: the sizes at the edges of every size class
\* and past the largest, the alignments up to max_chunk_size, a type mask
\* without and one with the allocator's memory type
ChunkSizes ==
    {c \in min_chunk_size..max_chunk_size :
        \E k \in 0..BitLen(max_chunk_size) : c = min_chunk_size * Pow2(k)}
Sizes == {1} \cup ChunkSizes \cup {c + 1 : c \in ChunkSizes}
Alignments ==
    {a \in 1..max_chunk_size : \E k \in 0..BitLen(max_chunk_size) : a = Pow2(k)}
TypeMasks == {1, 3}

Range(seq) == {seq[i] : i \in 1..Len(seq)}

\* a call as `last` records it; reissued: the chunk returned is the one
\* freed last to its node
Call(op, reqs, res, chunk, index, owner, returned, reissued) ==
    [op |-> op, size |-> reqs.size, alignment |-> reqs.alignment,
     type_mask |-> reqs.type_mask, res |-> res, chunk |-> chunk,
     index |-> index, owner |-> owner, returned |-> returned,
     reissued |-> reissued]

NoReqs == Requirements(0, 0, 0)

Init ==
    /\ id \in MemoryTypeIds
    /\ chunks_per_block \in 1..MaxChunksPerBlock
    /\ \E limits \in ChunkSizeLimits :
        /\ min_chunk_size = limits.min
        /\ max_chunk_size = limits.max
    /\ nodes = ChunkedAllocator_new(chunks_per_block, min_chunk_size,
                                    max_chunk_size, id).nodes
    /\ owner_kind \in OwnerKinds
    /\ granted = {}
    /\ live = {}
    /\ recent = {}
    /\ phase = "running"
    /\ freed = FALSE
    /\ calls = 0
    /\ resolved = -1
    /\ last = Call("new", NoReqs, "ok", NoChunk, 0, "none", <<>>, FALSE)

\* the owner as a call may find it
Owner(refuse) == [kind |-> owner_kind, granted |-> granted, refuse |-> refuse]

\* the caller calls alloc; whether the owner refuses matters only to a call
\* that reaches it
Alloc ==
    /\ phase = "running"
    /\ calls < MaxCalls
    /\ calls' = calls + 1
    /\ Cardinality(live) < MaxLive
    /\ \E size \in Sizes, alignment \in Alignments, type_mask \in TypeMasks :
        LET reqs == Requirements(type_mask, size, alignment)
            asks == ChunkedAllocator_alloc(Self, Owner(TRUE), reqs).owner
                        # "none"
        IN  \E refuse \in IF asks THEN BOOLEAN ELSE {TRUE} :
            \E r \in {ChunkedAllocator_alloc(Self, Owner(refuse), reqs)} :
                /\ nodes' = r.nodes
                /\ granted' = r.granted
                /\ live' = IF r.res = "ok"
                           THEN live \cup {[chunk |-> r.chunk, node |-> r.index]}
                           ELSE live
                /\ recent' = IF r.res = "ok"
                             THEN {c \in recent : c.node # r.index}
                             ELSE recent
                /\ phase' = IF r.res = "panic" THEN "aborted" ELSE phase
                /\ last' = Call("alloc", reqs, r.res, r.chunk, r.index,
                                r.owner, <<>>,
                                r.res = "ok" /\
                                    [chunk |-> r.chunk, node |-> r.index]
                                        \in recent)
                /\ resolved' =
                       IF alloc_oversize(Self, reqs) THEN resolved
                       ELSE max(resolved,
                                pick_node(Self, alloc_pick_size(reqs)))
    /\ UNCHANGED <<id, chunks_per_block, min_chunk_size, max_chunk_size,
                   owner_kind, freed>>

\* the caller gives a chunk it holds back, unmodified
Free ==
    /\ phase = "running"
    /\ calls < MaxCalls
    /\ calls' = calls + 1
    /\ \E l \in live :
        \E r \in {ChunkedAllocator_free(Self, l.chunk)} :
            /\ nodes' = r.nodes
            /\ live' = live \ {l}
            /\ recent' = IF r.res = "ok"
                         THEN {c \in recent : c.node # r.index} \cup {l}
                         ELSE recent
            /\ phase' = IF r.res = "panic" THEN "aborted" ELSE phase
            /\ last' = Call("free", NoReqs, r.res, l.chunk, r.index, "none",
                            <<>>, FALSE)
    /\ freed' = TRUE
    /\ UNCHANGED <<id, chunks_per_block, min_chunk_size, max_chunk_size,
                   owner_kind, granted, resolved>>

\* the caller calls dispose; Ok consumes the allocator
Dispose ==
    /\ phase = "running"
    /\ calls < MaxCalls
    /\ calls' = calls + 1
    /\ \E r \in {ChunkedAllocator_dispose(Self)} :
           /\ nodes' = r.nodes
           /\ granted' = granted \ Range(r.returned)
           /\ phase' = IF r.ok THEN "disposed" ELSE phase
           /\ last' = Call("dispose", NoReqs, IF r.ok THEN "ok" ELSE "err",
                           NoChunk, 0, "none", r.returned, FALSE)
    /\ UNCHANGED <<id, chunks_per_block, min_chunk_size, max_chunk_size,
                   owner_kind, live, recent, freed, resolved>>

Next == Alloc \/ Free \/ Dispose

Spec == Init /\ [][Next]_vars

\* ---------------------------------------------------- pick_node on its own
\* the chunk size limits pick_node is tried with: the small powers of two,
\* and the 256 bytes of the documentation
PickLimits ==
    {[min |-> Pow2(s), max |-> Pow2(s + k)] :
        s \in 0..MaxMinShift, k \in 0..MaxClassShift}
    \cup {[min |-> 256, max |-> 512]}

\* an allocator with any of these limits, fresh or with its first two nodes
InitPick ==
    /\ id \in MemoryTypeIds
    /\ chunks_per_block = 1
    /\ \E limits \in PickLimits :
        /\ min_chunk_size = limits.min
        /\ max_chunk_size = limits.max
    /\ nodes \in
        {<<>>} \cup
        {g.nodes : g \in {h \in {ChunkedAllocator_grow(
                ChunkedAllocator_new(chunks_per_block, min_chunk_size,
                                     max_chunk_size, id), 1)} : h.res = "ok"}}
    /\ owner_kind = "root"
    /\ granted = {}
    /\ live = {}
    /\ recent = {}
    /\ phase = "running"
    /\ freed = FALSE
    /\ calls = 0
    /\ resolved = -1
    /\ last = Call("new", NoReqs, "ok", NoChunk, 0, "none", <<>>, FALSE)

\* pick_node(size) for a size in 1..max_chunk_size
PickNode ==
    /\ \E size \in 1..max_chunk_size :
        last' = Call("pick_node", Requirements(0, size, 0), "ok", NoChunk,
                     pick_node(Self, size), "none", <<>>, FALSE)
    /\ UNCHANGED <<id, chunks_per_block, min_chunk_size, max_chunk_size,
                   nodes, owner_kind, granted, live, recent, phase, freed,
                   calls, resolved>>

NextPick == PickNode

SpecPick == InitPick /\ [][NextPick]_vars

\* ------------------------------------------------------------ the claims
\* the chunks node `index` has issued and not got back
LiveOf(index) == {l \in live : l.node = index}

\* the type mask of the last call admits the allocator's memory type
Compatible(type_mask) == BitAnd(Pow2(id), type_mask) # 0

\* two chunks share a byte of one memory object
ChunksOverlap(a, b) ==
    /\ a.memory = b.memory
    /\ a.start < b.end
    /\ b.start < a.end

AllocOk == last.op = "alloc" /\ last.res = "ok"

\* the step is a call of alloc, of dispose (every call writes `last`)
AllocCall == last'.op = "alloc"
DisposeCall == last'.op = "dispose"

\* C1: while no chunk has been freed, no two chunks the caller holds share a
\* byte of a memory object.
NoDoubleIssuance ==
    ~freed =>
        \A a, b \in live : a # b => ~ChunksOverlap(a.chunk, b.chunk)

\* C2: alloc answers OutOfMemory only to a size above max_chunk_size or when
\* the owner refuses, and every request of size 1..max_chunk_size with an
\* alignment up to max_chunk_size, a compatible type mask and a willing owner
\* gets a chunk of node pick_node(max(size, alignment)), without a panic.
AllocServesEverySizeClass ==
    last.op = "alloc" =>
        /\ last.res = "OutOfMemory" =>
               last.size > max_chunk_size \/ last.owner = "failed"
        /\ ( /\ 1 <= last.size /\ last.size <= max_chunk_size
             /\ last.alignment <= max_chunk_size
             /\ Compatible(last.type_mask)
             /\ last.owner # "failed" )
           => /\ last.res = "ok"
              /\ last.index = pick_node(Self, max(last.size, last.alignment))

\* C3: in every node, blocks.len() * chunks_per_block is free.len() plus the
\* number of chunks of the node the caller holds.
AccountingInvariant ==
    \A i \in 1..Len(nodes) :
        Len(nodes[i].blocks) * nodes[i].chunks_per_block
            = Len(nodes[i].free) + Cardinality(LiveOf(i - 1))

\* a node with two blocks, a chunk out and a chunk given back
AccountingWitness ==
    /\ freed
    /\ \E i \in 1..Len(nodes) :
        /\ Len(nodes[i].blocks) = 2
        /\ nodes[i].free # <<>>
        /\ LiveOf(i - 1) # {}

\* C4: a chunk alloc returns starts at a multiple of the requested alignment
\* whenever that alignment is at most the chunk_size of the serving node.
AlignmentGuarantee ==
    ( /\ AllocOk
      /\ last.alignment <= nodes[last.index + 1].chunk_size )
    => last.chunk.start % last.alignment = 0

\* a chunk popped off the free list at a non-zero offset, for an alignment
\* above 1
AlignmentWitness ==
    /\ AllocOk
    /\ last.owner = "none"
    /\ last.alignment > 1
    /\ last.alignment <= nodes[last.index + 1].chunk_size
    /\ last.chunk.start > 0

\* C5: a chunk alloc returns has the size min_chunk_size * 2^index of the
\* node index = pick_node(max(size, alignment)), which is at least the
\* requested size.
SizeGuarantee ==
    AllocOk =>
        LET index == pick_node(Self, max(last.size, last.alignment))
        IN  /\ last.index = index
            /\ TaggedBlock_size(last.chunk) = min_chunk_size * Pow2(index)
            /\ TaggedBlock_size(last.chunk) = nodes[index + 1].chunk_size
            /\ TaggedBlock_size(last.chunk) >= last.size

\* a small request served by a larger size class because of its alignment
SizeWitness ==
    /\ AllocOk
    /\ last.size <= min_chunk_size
    /\ last.alignment > min_chunk_size
    /\ TaggedBlock_size(last.chunk) = last.alignment

\* C6: a node is busy exactly when the caller holds a chunk of it, and the
\* allocator exactly when some node is, that is when the caller holds a chunk.
BusyAccounting ==
    /\ \A i \in 1..Len(nodes) :
           ChunkedNode_is_used(nodes[i]) <=> LiveOf(i - 1) # {}
    /\ ChunkedAllocator_is_used(Self) <=> live # {}

\* every chunk has come back: nothing is busy although blocks are held
BusyWitness ==
    /\ last.op = "free"
    /\ live = {}
    /\ granted # {}
    /\ Cardinality({i \in 1..Len(nodes) : nodes[i].blocks # <<>>}) = 2
    /\ ~ChunkedAllocator_is_used(Self)

\* C7: dispose while the caller holds a chunk fails, changes no node and
\* returns no block to the owner; dispose when it holds none succeeds and
\* returns every block to the owner, leaving none held.
DisposalSafety ==
    [][DisposeCall =>
        IF live # {}
        THEN /\ last'.res = "err"
             /\ nodes' = nodes
             /\ granted' = granted
             /\ last'.returned = <<>>
             /\ phase' = "running"
        ELSE /\ last'.res = "ok"
             /\ phase' = "disposed"
             /\ Range(last'.returned) = granted
             /\ Len(last'.returned) = Cardinality(granted)
             /\ granted' = {}
             /\ nodes' = <<>>]_vars

\* a dispose that gave blocks back to the owner
DisposalWitness ==
    /\ last.op = "dispose"
    /\ last.res = "ok"
    /\ Len(last.returned) >= 2
    /\ granted = {}

\* C8: alloc with a size above max_chunk_size answers OutOfMemory, does not
\* call the owner and changes no node.
OversizeRejection ==
    [][(AllocCall /\ last'.size > max_chunk_size) =>
        /\ last'.res = "OutOfMemory"
        /\ last'.owner = "none"
        /\ granted' = granted
        /\ nodes' = nodes]_vars

\* an oversize request refused by an allocator that has nodes
OversizeWitness ==
    /\ last.op = "alloc"
    /\ last.size > max_chunk_size
    /\ last.res = "OutOfMemory"
    /\ nodes # <<>>

\* C9: alloc with a type mask without the allocator's memory type answers
\* NoCompatibleMemoryType, does not call the owner and leaves the node
\* sequence and every node as they were, for every size up to max_chunk_size.
TypeMismatchRejection ==
    [][(AllocCall /\ ~Compatible(last'.type_mask)
                  /\ last'.size <= max_chunk_size) =>
        /\ last'.res = "NoCompatibleMemoryType"
        /\ last'.owner = "none"
        /\ granted' = granted
        /\ nodes' = nodes]_vars

\* C10: once a chunk has been freed, the next chunk its node issues is that
\* chunk again: the same memory object, range and tag.
RoundTripReuse ==
    [][(AllocCall /\ last'.res = "ok"
                  /\ \E c \in recent : c.node = last'.index) =>
        [chunk |-> last'.chunk, node |-> last'.index] \in recent]_vars

\* a freed chunk issued again while a slot never issued waits behind it
RoundTripWitness ==
    /\ AllocOk
    /\ last.reissued
    /\ nodes[last.index + 1].free # <<>>
    /\ Cardinality(LiveOf(last.index)) = 1

\* C11: pick_node(size) is the smallest i >= 0 with
\* min_chunk_size * 2^i >= size, whatever nodes the allocator has.
SizeClassDeterminism ==
    last.op = "pick_node" =>
        /\ min_chunk_size * Pow2(last.index) >= last.size
        /\ \A j \in 0..(last.index - 1) : min_chunk_size * Pow2(j) < last.size

\* min_chunk_size 256: size 257 is the first of class 1, in an allocator that
\* has nodes
SizeClassWitness ==
    /\ last.op = "pick_node"
    /\ min_chunk_size = 256
    /\ last.size = 257
    /\ last.index = 1
    /\ nodes # <<>>

\* the nodes of before the step are all still there, in place, each with
\* its size class and with the blocks it had
NodesKept ==
    /\ Len(nodes') >= Len(nodes)
    /\ \A i \in 1..Len(nodes) :
        /\ nodes'[i].chunk_size = nodes[i].chunk_size
        /\ nodes'[i].chunks_per_block = nodes[i].chunks_per_block
        /\ nodes'[i].id = nodes[i].id
        /\ Len(nodes'[i].blocks) >= Len(nodes[i].blocks)
        /\ SubSeq(nodes'[i].blocks, 1, Len(nodes[i].blocks)) = nodes[i].blocks

\* grow(j) after a grow(i) that went through, j < i, changes nothing
GrowBelowIsNoOp ==
    \A i \in 1..(Len(nodes) + 2) : \A j \in 0..(i - 1) :
        LET first == ChunkedAllocator_grow(Self, i)
            second == ChunkedAllocator_grow(
                          [Self EXCEPT !.nodes = first.nodes], j)
        IN  first.res = "ok" =>
                second = [res |-> "ok", nodes |-> first.nodes]

\* C12: alloc and free never shorten the node sequence nor remove, move or
\* replace a node, and grow(j) after grow(i), j < i, changes no node.
GrowthMonotonicity ==
    /\ [](GrowBelowIsNoOp)
    /\ [][(last'.op \in {"alloc", "free"}) => NodesKept]_vars

\* a request for size class 0 served after the nodes of class 1 were made,
\* the node of class 1 still holding its block
GrowthWitness ==
    /\ AllocOk
    /\ last.index = 0
    /\ Len(nodes) = 3
    /\ nodes[2].blocks # <<>>

RECURSIVE BlocksInOrder(_)
\* the blocks of the nodes, node by node, each node's in block-index order
BlocksInOrder(ns) ==
    IF ns = <<>> THEN <<>>
    ELSE BlocksInOrder(SubSeq(ns, 1, Len(ns) - 1)) \o ns[Len(ns)].blocks

\* C13: free gives nothing back to the owner and changes no block list; the
\* owner gets blocks back only in a dispose that succeeds, when the caller
\* holds no chunk, and then every block it granted, once, in block order.
OwnershipFlow ==
    [][/\ last'.op = "free" =>
            /\ granted' = granted
            /\ last'.returned = <<>>
            /\ Len(nodes') = Len(nodes)
            /\ \A i \in 1..Len(nodes) : nodes'[i].blocks = nodes[i].blocks
       /\ (last'.returned # <<>> \/ ~(granted \subseteq granted')) =>
            /\ last'.op = "dispose"
            /\ last'.res = "ok"
            /\ live = {}
       /\ (last'.op = "dispose" /\ last'.res = "ok") =>
            /\ last'.returned = BlocksInOrder(nodes)
            /\ Range(last'.returned) = granted
            /\ Cardinality(Range(last'.returned)) = Len(last'.returned)
            /\ granted' = {}]_vars

\* a dispose that gave back the block of node 0 and then that of node 1
OwnershipWitness ==
    /\ last.op = "dispose"
    /\ last.res = "ok"
    /\ Len(last.returned) = 2
    /\ last.returned[1].size < last.returned[2].size
    /\ freed

\* C14: every chunk the caller holds is routed by free to the node that
\* issued it, its tag names a block of that node, and the asserts of
\* ChunkedNode::free hold for it, so that no free of a held chunk panics.
FreeRoundTrip ==
    /\ \A l \in live :
        /\ pick_node(Self, TaggedBlock_size(l.chunk)) = l.node
        /\ l.node + 1 <= Len(nodes)
        /\ LET node == nodes[l.node + 1]
           IN  /\ l.chunk.tag + 1 <= Len(node.blocks)
               /\ l.chunk.start % node.chunk_size = 0
               /\ TaggedBlock_size(l.chunk) = node.chunk_size
               /\ Block_memory(node.blocks[l.chunk.tag + 1]) = l.chunk.memory
    /\ last.op = "free" => last.res = "ok"

\* a chunk of the second block of node 1 given back while another is held
FreeRoundTripWitness ==
    /\ last.op = "free"
    /\ last.res = "ok"
    /\ last.index = 1
    /\ last.chunk.tag = 1
    /\ live # {}

\* C15: node i has chunk_size min_chunk_size * 2^i, which is at most
\* max_chunk_size.
NodeSequenceShape ==
    \A i \in 1..Len(nodes) :
        /\ nodes[i].chunk_size = min_chunk_size * Pow2(i - 1)
        /\ nodes[i].chunk_size <= max_chunk_size

\* the nodes reach up to the size class of max_chunk_size
NodeSequenceWitness ==
    /\ Len(nodes) = 3
    /\ nodes[3].chunk_size = max_chunk_size
    /\ nodes[2].blocks # <<>>

\* C16: a node index exists only once a request has resolved to it or to a
\* higher one, and after the first request, resolving to index k, the nodes
\* are exactly 0..k.
LazyPopulation ==
    /\ \A i \in 0..(Len(nodes) - 1) : i <= resolved
    /\ ( /\ calls = 1
         /\ last.op = "alloc"
         /\ last.res # "panic"
         /\ resolved >= 0 )
       => Len(nodes) = resolved + 1

\* while nothing has been freed, a node that issued N chunks holds
\* ceil(N / chunks_per_block) blocks
BlocksMatchAllocations ==
    ~freed =>
        \A i \in 1..Len(nodes) :
            Len(nodes[i].blocks) =
                (Cardinality(LiveOf(i - 1)) + chunks_per_block - 1)
                    \div chunks_per_block

\* an alloc step asks the owner for one block at most, only when the free
\* list of the serving node is empty, and for chunks_per_block chunks
\* aligned to chunk_size, of the node's memory type only
OwnerAskedSparingly ==
    AllocCall =>
        /\ granted \subseteq granted'
        /\ Cardinality(granted') <= Cardinality(granted) + 1
        /\ (granted' # granted) => last'.owner = "granted"
        /\ last'.owner # "none" =>
            LET node == nodes'[last'.index + 1]
            IN  /\ \/ last'.index + 1 > Len(nodes)
                   \/ nodes[last'.index + 1].free = <<>>
                /\ ChunkedNode_grow_reqs(node) =
                       Requirements(Pow2(id),
                                    node.chunk_size * chunks_per_block,
                                    node.chunk_size)
                /\ \A b \in granted' \ granted :
                    /\ b.size = node.chunk_size * chunks_per_block
                    /\ b.start % node.chunk_size = 0

\* C17: an alloc calls the owner at most once, only when the free list of
\* the serving node is empty, for a block of chunk_size * chunks_per_block
\* bytes aligned to chunk_size of the node's memory type; so N allocations
\* of one size class without a free leave ceil(N / chunks_per_block) blocks.
UpstreamEconomy ==
    /\ [](BlocksMatchAllocations)
    /\ [][OwnerAskedSparingly]_vars

\* the third chunk of a node of two chunks a block: its second block
UpstreamWitness ==
    /\ ~freed
    /\ AllocOk
    /\ last.owner = "granted"
    /\ chunks_per_block = 2
    /\ Cardinality(LiveOf(last.index)) = 3
    /\ Len(nodes[last.index + 1].blocks) = 2

\* C18: when the owner fails while a node grows, alloc returns the owner's
\* error, every node that existed before the call is as it was, a node the
\* call created holds no block and no free slot, and nothing was granted or
\* issued.
GrowthFailureAtomic ==
    [][(AllocCall /\ last'.owner = "failed") =>
        /\ last'.res = Owner_alloc(owner_kind, granted, TRUE,
               ChunkedNode_grow_reqs(nodes'[last'.index + 1])).err
        /\ last'.chunk = NoChunk
        /\ granted' = granted
        /\ live' = live
        /\ Len(nodes') >= Len(nodes)
        /\ \A i \in 1..Len(nodes') :
            IF i <= Len(nodes)
            THEN nodes'[i] = nodes[i]
            ELSE nodes'[i].blocks = <<>> /\ nodes'[i].free = <<>>
    ]_vars

\* the owner has refused a node that already holds a block
GrowthFailureWitness ==
    /\ last.op = "alloc"
    /\ last.owner = "failed"
    /\ last.res = "OutOfMemory"
    /\ nodes[last.index + 1].blocks # <<>>
    /\ live # {}

\* slot number k of a node, counting block after block
SlotOf(k) == <<k \div chunks_per_block, k % chunks_per_block>>

\* while nothing has been freed, the free list of every node is its
\* never-issued slots in ascending (block_index, chunk_index) order
FreeListAscending ==
    ~freed =>
        \A i \in 1..Len(nodes) :
            LET N == Cardinality(LiveOf(i - 1))
                total == Len(nodes[i].blocks) * chunks_per_block
            IN  /\ N <= total
                /\ nodes[i].free = [k \in 1..(total - N) |-> SlotOf(N + k - 1)]

\* while nothing has been freed, the (N+1)-th chunk of a node is slot N
IssuedInOrder ==
    (AllocCall /\ ~freed' /\ last'.res = "ok") =>
        LET N == Cardinality(LiveOf(last'.index))
            chunk_size == nodes'[last'.index + 1].chunk_size
        IN  /\ last'.chunk.tag = SlotOf(N)[1]
            /\ last'.chunk.start = SlotOf(N)[2] * chunk_size
            /\ last'.chunk.end = last'.chunk.start + chunk_size

\* a growth puts chunks_per_block slots of the new block at the back of the
\* free list (the first of the list is issued by the same call)
GrowthEnqueuesAtBack ==
    (AllocCall /\ last'.owner = "granted" /\ last'.res = "ok") =>
        LET new == nodes'[last'.index + 1]
            old == IF last'.index + 1 <= Len(nodes)
                   THEN nodes[last'.index + 1]
                   ELSE ChunkedNode_new(new.chunk_size, chunks_per_block, id)
        IN  /\ Len(new.blocks) = Len(old.blocks) + 1
            /\ new.free = Tail(old.free \o
                   [i \in 1..chunks_per_block |-> <<Len(old.blocks), i - 1>>])

\* C19: with no free in between, the allocations of one size class come in
\* ascending (block_index, chunk_index) order, offsets 0, chunk_size, ... of
\* block 0, then of block 1; a growth enqueues exactly chunks_per_block new
\* slots at the back of the free list, all with the index of the new block.
FirstUseInOrder ==
    /\ [](FreeListAscending)
    /\ [][IssuedInOrder /\ GrowthEnqueuesAtBack]_vars

\* the first chunk of the second block is out and its other slot waits
FirstUseWitness ==
    /\ ~freed
    /\ AllocOk
    /\ chunks_per_block = 2
    /\ last.chunk.tag = 1
    /\ last.chunk.start = 0
    /\ nodes[last.index + 1].free = << <<1, 1>> >>

\* C20: every live chunk lies inside the byte range of the block its tag
\* names: block.range.start <= chunk.start and chunk.end <= block.range.end,
\* also for a block that starts at a non-zero offset of a shared memory object.
ChunkContainment ==
    \A l \in live :
        LET node == nodes[l.node + 1]
            block == node.blocks[l.chunk.tag + 1]
        IN  /\ l.chunk.memory = Block_memory(block)
            /\ Block_range_start(block) <= l.chunk.start
            /\ l.chunk.start + node.chunk_size
                   <= Block_range_start(block) + Block_size(block)

====
